---- MODULE Spec2Model ----
(***************************************************************************)
(* Model of lib9p's hashtable.c: a fixed array of ht_nentries chains       *)
(* (TAILQ lists of ht_item), guarded by one pthread rwlock, with a cursor  *)
(* iterator (struct ht_iter).  Threads call ht_find, ht_add, ht_remove,    *)
(* ht_iter, ht_next and ht_remove_at_iter; each call is split where it    *)
(* takes the lock, where it drops it, and where it returns.                *)
(***************************************************************************)
EXTENDS Integers, Sequences, FiniteSets, TLC

\* ---- bounds of the model ----
NEntries == 2
MaxHash == 2
MaxValue == 2
MaxNodes == 3
NumThreads == 2
NumIters == 1

\* ---- errno values set by the code ----
EEXIST == 17
ENOENT == 2
EINVAL == 22

NULL == 0
\* the address of a node that has since been passed to free(): the pointer
\* keeps its bits, what it refers to is gone
Dangling == -1
NoThread == 0
Threads == 1..NumThreads
\* the threads that own a struct ht_iter
Iterators == 1..NumIters
\* the thread of a single-threaded caller
SeqThreads == {1}
Node == 1..MaxNodes
Hashes == 0..MaxHash
Values == 1..MaxValue
Slots == 0..(NEntries - 1)

VARIABLES
    hte_items,    \* [Slots -> Seq(Node)]: h->ht_entries[i].hte_items
    hti_hash,     \* [Node -> Hashes]: item->hti_hash
    hti_data,     \* [Node -> Values \cup {NULL}]: item->hti_data
    allocated,    \* nodes obtained from l9p_calloc and not yet freed
    readers,      \* threads holding ht_rwlock in shared mode
    writer,       \* thread holding ht_rwlock in exclusive mode, or NoThread
    pc,           \* [Threads -> position of the thread inside its call]
    hash,         \* [Threads -> the hash argument of the call]
    value,        \* [Threads -> the value argument of the call]
    item,         \* [Threads -> the local item of ht_add / ht_next]
    ret,          \* [Threads -> what the call returns]
    errno,        \* [Threads -> errno as the caller reads it after the call]
    htit_parent,  \* [Threads -> TRUE once ht_iter bound the thread's iterator]
    htit_slot,    \* [Threads -> iter->htit_slot]
    htit_cursor,  \* [Threads -> iter->htit_cursor]
    phase,        \* [Threads -> what the iterator's last call was]
    returned,     \* [Threads -> the node whose data ht_next returned last]
    yielded,      \* [Threads -> values ht_next returned since ht_iter]
    clean,        \* [Threads -> no chain changed since the thread's ht_iter]
    ub,           \* freed memory has been read or written
    destroyed     \* ht_destroy has run

tbl == <<hte_items, hti_hash, hti_data, allocated>>
lock == <<readers, writer>>
frame == <<hash, value, item, ret, errno>>
iter == <<htit_parent, htit_slot, htit_cursor, phase, returned, yielded, clean>>
vars == <<hte_items, hti_hash, hti_data, allocated, readers, writer, pc,
          hash, value, item, ret, errno, htit_parent, htit_slot, htit_cursor,
          phase, returned, yielded, clean, ub, destroyed>>

\* ---- sys/queue.h TAILQ, with a chain held as the sequence of its nodes ----
TAILQ_FIRST(items) == IF items = <<>> THEN NULL ELSE Head(items)

InChain(items, n) == \E i \in 1..Len(items) : items[i] = n

IndexOf(items, n) == CHOOSE i \in 1..Len(items) : items[i] = n

TAILQ_NEXT(items, n) ==
    LET i == IndexOf(items, n)
    IN IF i = Len(items) THEN NULL ELSE items[i + 1]

\* faulty variant: the new node is never linked
TAILQ_INSERT_TAIL_Lost(items, n) == items

\* faulty variant: the new node replaces the chain instead of extending it
TAILQ_INSERT_TAIL_Reset(items, n) == <<n>>

TAILQ_INSERT_TAIL(items, n) == Append(items, n)

\* faulty variant: unlinking a node drops everything linked behind it too
TAILQ_REMOVE_Truncate(items, n) == SubSeq(items, 1, IndexOf(items, n) - 1)

TAILQ_REMOVE(items, n) ==
    LET i == IndexOf(items, n)
    IN SubSeq(items, 1, i - 1) \o SubSeq(items, i + 1, Len(items))

\* ---- l9p_calloc / free ----
\* the node l9p_calloc hands out: the lowest one that is not allocated, so
\* the memory of a freed node is used again
NewNode(alloc) == CHOOSE n \in Node : n \notin alloc /\ \A m \in Node \ alloc : n <= m

\* what every thread's copy of a pointer refers to once node n is freed
AfterFree(ptrs, n) == [t \in Threads |-> IF ptrs[t] = n THEN Dangling ELSE ptrs[t]]

\* what a read of a pointer field of freed memory can produce
GarbagePtr == {NULL, Dangling} \cup allocated

\* what a read of hti_data of freed memory can produce
GarbageData == {NULL} \cup Values

\* ---- the chain scan of ht_find, ht_add and ht_remove ----
RECURSIVE ScanChain(_, _, _, _)
ScanChain(items, hashes, h, i) ==
    IF i > Len(items) THEN NULL
    ELSE IF hashes[items[i]] = h THEN items[i]
    ELSE ScanChain(items, hashes, h, i + 1)

SlotOf(h) == h % NEntries

\* ht_find's result on a table: the data of the first item with that hash
HtFind(chains, hashes, data, h) ==
    LET found == ScanChain(chains[SlotOf(h)], hashes, h, 1)
    IN IF found = NULL THEN NULL ELSE data[found]

\* faulty variant: ht_add does not look for the hash before inserting
HtAddDup_NoScan(items, hashes, h) == NULL

\* the duplicate scan of ht_add
HtAddDup(items, hashes, h) == ScanChain(items, hashes, h, 1)

\* the nodes linked in some chain
RECURSIVE SeqRange(_)
SeqRange(items) == IF items = <<>> THEN {} ELSE {Head(items)} \cup SeqRange(Tail(items))

Linked(chains) == UNION {SeqRange(chains[s]) : s \in Slots}

\* ---- pthread_rwlock ----
CanRdLock == writer = NoThread

\* faulty variant: pthread_rwlock_wrlock returns without waiting for anyone
CanWrLock_NoWait == TRUE

CanWrLock == writer = NoThread /\ readers = {}

Init ==
    /\ hte_items = [s \in Slots |-> <<>>]
    /\ hti_hash = [n \in Node |-> 0]
    /\ hti_data = [n \in Node |-> NULL]
    /\ allocated = {}
    /\ readers = {}
    /\ writer = NoThread
    /\ pc = [t \in Threads |-> "idle"]
    /\ hash = [t \in Threads |-> 0]
    /\ value = [t \in Threads |-> NULL]
    /\ item = [t \in Threads |-> NULL]
    /\ ret = [t \in Threads |-> 0]
    /\ errno = [t \in Threads |-> 0]
    /\ htit_parent = [t \in Threads |-> FALSE]
    /\ htit_slot = [t \in Threads |-> 0]
    /\ htit_cursor = [t \in Threads |-> NULL]
    /\ phase = [t \in Threads |-> "none"]
    /\ returned = [t \in Threads |-> NULL]
    /\ yielded = [t \in Threads |-> <<>>]
    /\ clean = [t \in Threads |-> FALSE]
    /\ ub = FALSE
    /\ destroyed = FALSE

\* a thread enters a call: it is idle and the table has not been destroyed;
\* once freed memory has been read or written the program has no defined
\* behaviour left, and the calls in flight are the last ones followed
CanCall(t) == pc[t] = "idle" /\ ~destroyed /\ ~ub

\* the call has returned and its caller has read the result and errno: the
\* frame is gone, and the model keeps neither the result nor errno
Return(t) ==
    /\ pc[t] \in {"find_ret", "add_ret", "remove_ret", "iter_ret", "next_ret", "rai_ret"}
    /\ pc' = [pc EXCEPT ![t] = "idle"]
    /\ hash' = [hash EXCEPT ![t] = 0]
    /\ value' = [value EXCEPT ![t] = NULL]
    /\ item' = [item EXCEPT ![t] = NULL]
    /\ ret' = [ret EXCEPT ![t] = 0]
    /\ errno' = [errno EXCEPT ![t] = 0]
    /\ UNCHANGED <<tbl, lock, iter, ub, destroyed>>

\* a chain changed: every iteration in progress has seen a mutation
Mutated ==
    /\ clean' = [u \in Threads |-> FALSE]
    /\ yielded' = [u \in Threads |-> <<>>]

\* ---- ht_find ----
FindEnter(t, h) ==
    /\ CanCall(t)
    /\ CanRdLock
    /\ readers' = readers \cup {t}
    /\ pc' = [pc EXCEPT ![t] = "find_cs"]
    /\ hash' = [hash EXCEPT ![t] = h]
    /\ UNCHANGED <<tbl, writer, value, item, ret, errno, iter, ub, destroyed>>

FindBody(t) ==
    /\ pc[t] = "find_cs"
    /\ ret' = [ret EXCEPT ![t] = HtFind(hte_items, hti_hash, hti_data, hash[t])]
    /\ readers' = readers \ {t}
    /\ pc' = [pc EXCEPT ![t] = "find_ret"]
    /\ UNCHANGED <<tbl, writer, hash, value, item, errno, iter, ub, destroyed>>

\* ---- ht_add ----
\* a call that will insert is made only while l9p_calloc has a node left
AddEnter(t, h, v) ==
    /\ CanCall(t)
    /\ \/ Cardinality(allocated) + Cardinality({u \in Threads : pc[u] = "add_ins"}) < MaxNodes
       \/ HtAddDup(hte_items[SlotOf(h)], hti_hash, h) # NULL
    /\ CanWrLock
    /\ writer' = t
    /\ pc' = [pc EXCEPT ![t] = "add_cs"]
    /\ hash' = [hash EXCEPT ![t] = h]
    /\ value' = [value EXCEPT ![t] = v]
    /\ UNCHANGED <<tbl, readers, item, ret, errno, iter, ub, destroyed>>

\* faulty variant: the node is allocated and linked before the chain is
\* scanned, and a duplicate is reported with the node left in the chain
AddScan_LinkFirst(t) ==
    /\ pc[t] = "add_cs"
    /\ IF HtAddDup(hte_items[SlotOf(hash[t])], hti_hash, hash[t]) # NULL
       THEN /\ IF allocated # Node
               THEN /\ LET new == NewNode(allocated)
                       IN /\ allocated' = allocated \cup {new}
                          /\ hti_hash' = [hti_hash EXCEPT ![new] = hash[t]]
                          /\ hti_data' = [hti_data EXCEPT ![new] = value[t]]
                          /\ hte_items' = [hte_items EXCEPT ![SlotOf(hash[t])] =
                                              TAILQ_INSERT_TAIL(@, new)]
                    /\ Mutated
               ELSE UNCHANGED <<tbl, clean, yielded>>
            /\ errno' = [errno EXCEPT ![t] = EEXIST]
            /\ ret' = [ret EXCEPT ![t] = -1]
            /\ writer' = NoThread
            /\ pc' = [pc EXCEPT ![t] = "add_ret"]
       ELSE /\ pc' = [pc EXCEPT ![t] = "add_ins"]
            /\ UNCHANGED <<errno, ret, writer, tbl, clean, yielded>>
    /\ UNCHANGED <<readers, hash, value, item, htit_parent, htit_slot, htit_cursor,
                   phase, returned, ub, destroyed>>

\* faulty variant: the duplicate path returns without pthread_rwlock_unlock
AddScan_KeepLock(t) ==
    /\ pc[t] = "add_cs"
    /\ IF HtAddDup(hte_items[SlotOf(hash[t])], hti_hash, hash[t]) # NULL
       THEN /\ errno' = [errno EXCEPT ![t] = EEXIST]
            /\ ret' = [ret EXCEPT ![t] = -1]
            /\ pc' = [pc EXCEPT ![t] = "add_ret"]
       ELSE /\ pc' = [pc EXCEPT ![t] = "add_ins"]
            /\ UNCHANGED <<errno, ret>>
    /\ UNCHANGED <<tbl, lock, hash, value, item, iter, ub, destroyed>>

AddScan(t) ==
    /\ pc[t] = "add_cs"
    /\ IF HtAddDup(hte_items[SlotOf(hash[t])], hti_hash, hash[t]) # NULL
       THEN /\ errno' = [errno EXCEPT ![t] = EEXIST]
            /\ ret' = [ret EXCEPT ![t] = -1]
            /\ writer' = NoThread
            /\ pc' = [pc EXCEPT ![t] = "add_ret"]
       ELSE /\ pc' = [pc EXCEPT ![t] = "add_ins"]
            /\ UNCHANGED <<errno, ret, writer>>
    /\ UNCHANGED <<tbl, readers, hash, value, item, iter, ub, destroyed>>

AddInsert(t) ==
    /\ pc[t] = "add_ins"
    /\ LET entry == SlotOf(hash[t])
           new == NewNode(allocated)
       IN /\ allocated' = allocated \cup {new}
          /\ hti_hash' = [hti_hash EXCEPT ![new] = hash[t]]
          /\ hti_data' = [hti_data EXCEPT ![new] = value[t]]
          /\ hte_items' = [hte_items EXCEPT ![entry] = TAILQ_INSERT_TAIL(@, new)]
          /\ item' = [item EXCEPT ![t] = new]
    /\ ret' = [ret EXCEPT ![t] = 0]
    /\ Mutated
    /\ writer' = NoThread
    /\ pc' = [pc EXCEPT ![t] = "add_ret"]
    /\ UNCHANGED <<readers, hash, value, errno, htit_parent, htit_slot,
                   htit_cursor, phase, returned, ub, destroyed>>

\* ---- ht_remove ----
RemoveEnter(t, h) ==
    /\ CanCall(t)
    /\ CanWrLock
    /\ writer' = t
    /\ pc' = [pc EXCEPT ![t] = "remove_cs"]
    /\ hash' = [hash EXCEPT ![t] = h]
    /\ UNCHANGED <<tbl, readers, value, item, ret, errno, iter, ub, destroyed>>

\* TAILQ_REMOVE and free of node n of chain slot; what the freed memory
\* holds is not defined, and the model clears it
Unlink(slot, n) ==
    /\ hte_items' = [hte_items EXCEPT ![slot] = TAILQ_REMOVE(@, n)]
    /\ allocated' = allocated \ {n}
    /\ hti_hash' = [hti_hash EXCEPT ![n] = 0]
    /\ hti_data' = [hti_data EXCEPT ![n] = NULL]
    /\ htit_cursor' = AfterFree(htit_cursor, n)
    /\ returned' = AfterFree(returned, n)
    /\ Mutated

RemoveBody(t) ==
    /\ pc[t] = "remove_cs"
    /\ LET slot == SlotOf(hash[t])
           found == ScanChain(hte_items[slot], hti_hash, hash[t], 1)
       IN IF found # NULL
          THEN /\ Unlink(slot, found)
               /\ item' = AfterFree(item, found)
               /\ ret' = [ret EXCEPT ![t] = 0]
               /\ UNCHANGED errno
          ELSE /\ errno' = [errno EXCEPT ![t] = ENOENT]
               /\ ret' = [ret EXCEPT ![t] = -1]
               /\ UNCHANGED <<tbl, item, htit_cursor, returned, clean, yielded>>
    /\ writer' = NoThread
    /\ pc' = [pc EXCEPT ![t] = "remove_ret"]
    /\ UNCHANGED <<readers, hash, value, htit_parent, htit_slot, phase, ub, destroyed>>

\* ---- ht_iter ----
IterEnter(t) ==
    /\ CanCall(t)
    /\ t \in Iterators
    /\ CanRdLock
    /\ readers' = readers \cup {t}
    /\ pc' = [pc EXCEPT ![t] = "iter_cs"]
    /\ UNCHANGED <<tbl, writer, frame, iter, ub, destroyed>>

IterBody(t) ==
    /\ pc[t] = "iter_cs"
    /\ htit_parent' = [htit_parent EXCEPT ![t] = TRUE]
    /\ htit_slot' = [htit_slot EXCEPT ![t] = 0]
    /\ htit_cursor' = [htit_cursor EXCEPT ![t] = TAILQ_FIRST(hte_items[0])]
    /\ phase' = [phase EXCEPT ![t] = "fresh"]
    /\ returned' = [returned EXCEPT ![t] = NULL]
    /\ yielded' = [yielded EXCEPT ![t] = <<>>]
    /\ clean' = [clean EXCEPT ![t] = TRUE]
    /\ readers' = readers \ {t}
    /\ pc' = [pc EXCEPT ![t] = "iter_ret"]
    /\ UNCHANGED <<tbl, writer, frame, ub, destroyed>>

\* ---- ht_next ----
\* the chain a live node is linked in
ChainOf(n) == CHOOSE s \in Slots : InChain(hte_items[s], n)

\* the retry loop: nxt is what TAILQ_NEXT(iter->htit_cursor) reads when the
\* loop gets to read it; item = NULL stands for "return (NULL)"
RECURSIVE HtNextRetry(_, _, _)
\* faulty variant: at the end of a chain ht_next returns NULL at once,
\* without moving to the next slot
HtNextRetry_StopsShort(slot, cursor, nxt) ==
    IF slot = NEntries
    THEN [slot |-> slot, cursor |-> cursor, item |-> NULL]
    ELSE IF cursor = NULL
    THEN HtNextRetry(slot + 1, cursor, nxt)
    ELSE IF nxt = NULL
    THEN [slot |-> slot, cursor |-> NULL, item |-> NULL]
    ELSE [slot |-> slot, cursor |-> nxt, item |-> cursor]

\* faulty variant: htit_slot is incremented before the successor is tested,
\* so the slot moves on while the cursor stays in the chain
HtNextRetry_SlotFirst(slot, cursor, nxt) ==
    IF slot = NEntries
    THEN [slot |-> slot, cursor |-> cursor, item |-> NULL]
    ELSE IF cursor = NULL
    THEN HtNextRetry(slot + 1, cursor, nxt)
    ELSE IF nxt = NULL
    THEN HtNextRetry(slot + 1, NULL, nxt)
    ELSE [slot |-> slot + 1, cursor |-> nxt, item |-> cursor]

HtNextRetry(slot, cursor, nxt) ==
    IF slot = NEntries
    THEN [slot |-> slot, cursor |-> cursor, item |-> NULL]
    ELSE IF cursor = NULL
    THEN HtNextRetry(slot + 1, cursor, nxt)
    ELSE IF nxt = NULL
    THEN HtNextRetry(slot + 1, NULL, nxt)
    ELSE [slot |-> slot, cursor |-> nxt, item |-> cursor]

NextEnter(t) ==
    /\ CanCall(t)
    /\ htit_parent[t]
    /\ CanRdLock
    /\ readers' = readers \cup {t}
    /\ pc' = [pc EXCEPT ![t] = "next_cs"]
    /\ UNCHANGED <<tbl, writer, frame, iter, ub, destroyed>>

\* the values TAILQ_NEXT(cursor) can read
NextOfCursor(cursor) ==
    IF cursor = NULL THEN {NULL}
    ELSE IF cursor = Dangling THEN GarbagePtr
    ELSE {TAILQ_NEXT(hte_items[ChainOf(cursor)], cursor)}

NextBody(t) ==
    /\ pc[t] = "next_cs"
    /\ \E nxt \in NextOfCursor(htit_cursor[t]) :
         LET r == HtNextRetry(htit_slot[t], htit_cursor[t], nxt)
         IN /\ htit_slot' = [htit_slot EXCEPT ![t] = r.slot]
            /\ htit_cursor' = [htit_cursor EXCEPT ![t] = r.cursor]
            /\ item' = [item EXCEPT ![t] = r.item]
            /\ IF r.item = NULL
               THEN /\ pc' = [pc EXCEPT ![t] = "next_ret"]
                    /\ ret' = [ret EXCEPT ![t] = NULL]
                    /\ phase' = [phase EXCEPT ![t] = "done"]
                    /\ returned' = [returned EXCEPT ![t] = NULL]
               ELSE /\ pc' = [pc EXCEPT ![t] = "next_read"]
                    /\ UNCHANGED <<ret, phase, returned>>
    /\ ub' = (ub \/ (htit_slot[t] # NEntries /\ htit_cursor[t] = Dangling))
    /\ yielded' = IF ub' THEN [u \in Threads |-> <<>>] ELSE yielded
    /\ readers' = readers \ {t}
    /\ UNCHANGED <<tbl, writer, hash, value, errno, htit_parent, clean, destroyed>>

\* return (item->hti_data), after the lock has been dropped
NextRead(t) ==
    /\ pc[t] = "next_read"
    /\ \E d \in (IF item[t] = Dangling THEN GarbageData ELSE {hti_data[item[t]]}) :
         ret' = [ret EXCEPT ![t] = d]
    /\ ub' = (ub \/ item[t] = Dangling)
    /\ yielded' = IF ub' THEN [u \in Threads |-> <<>>]
                  ELSE IF clean[t] THEN [yielded EXCEPT ![t] = Append(@, ret'[t])]
                  ELSE yielded
    /\ phase' = [phase EXCEPT ![t] = "next"]
    /\ returned' = [returned EXCEPT ![t] = item[t]]
    /\ pc' = [pc EXCEPT ![t] = "next_ret"]
    /\ UNCHANGED <<tbl, lock, hash, value, item, errno, htit_parent, htit_slot,
                   htit_cursor, clean, destroyed>>

\* ---- ht_remove_at_iter ----
RemoveAtIterCall(t) ==
    /\ CanCall(t)
    /\ htit_parent[t]
    /\ IF htit_cursor[t] = NULL
       THEN /\ errno' = [errno EXCEPT ![t] = EINVAL]
            /\ ret' = [ret EXCEPT ![t] = -1]
            /\ pc' = [pc EXCEPT ![t] = "rai_ret"]
       ELSE /\ pc' = [pc EXCEPT ![t] = "rai_lock"]
            /\ UNCHANGED <<errno, ret>>
    /\ UNCHANGED <<tbl, lock, hash, value, item, iter, ub, destroyed>>

RemoveAtIterLock(t) ==
    /\ pc[t] = "rai_lock"
    /\ CanWrLock
    /\ writer' = t
    /\ pc' = [pc EXCEPT ![t] = "rai_cs"]
    /\ UNCHANGED <<tbl, readers, frame, iter, ub, destroyed>>

\* the cursor is a live node of the chain TAILQ_REMOVE is given
CursorInSlot(t) ==
    /\ htit_cursor[t] \in Node
    /\ htit_slot[t] \in Slots
    /\ InChain(hte_items[htit_slot[t]], htit_cursor[t])

\* the part of a chain that starts at node g, as TAILQ_NEXT walks it; a
\* freed node's link leads nowhere the model follows
ChainFrom(g) ==
    IF g \in Linked(hte_items)
    THEN LET items == hte_items[ChainOf(g)]
         IN SubSeq(items, IndexOf(items, g), Len(items))
    ELSE <<g>>

\* TAILQ_REMOVE(head, elm) on an elm that has been freed reads elm's
\* tqe_next and tqe_prev from freed memory and stores the one through the
\* other.  What can come of it:
\*   - the stores land outside the chains (victim = NULL);
\*   - the memory is in use again as node victim, which is unlinked and
\*     freed in the cursor's place;
\*   - tqe_prev is the tail link of the iterator's chain and tqe_next is the
\*     address g of a node, live or freed: g and what follows it become the
\*     chain's tail.
RemoveAtIterBody(t) ==
    /\ pc[t] = "rai_cs"
    /\ IF CursorInSlot(t)
       THEN /\ Unlink(htit_slot[t], htit_cursor[t])
            /\ item' = AfterFree(item, htit_cursor[t])
            /\ UNCHANGED ub
       ELSE /\ ub' = TRUE
            /\ \/ \E victim \in {NULL} \cup (allocated \cap Linked(hte_items)) :
                    IF victim = NULL
                    THEN /\ UNCHANGED <<tbl, item, htit_cursor, returned, clean>>
                         /\ yielded' = [u \in Threads |-> <<>>]
                    ELSE /\ Unlink(ChainOf(victim), victim)
                         /\ item' = AfterFree(item, victim)
               \/ /\ htit_slot[t] \in Slots
                  /\ \E g \in Node \ SeqRange(hte_items[htit_slot[t]]) :
                       hte_items' = [hte_items EXCEPT ![htit_slot[t]] = @ \o ChainFrom(g)]
                  /\ Mutated
                  /\ UNCHANGED <<hti_hash, hti_data, allocated, item, htit_cursor, returned>>
    /\ phase' = [phase EXCEPT ![t] = "removed"]
    /\ ret' = [ret EXCEPT ![t] = 0]
    /\ writer' = NoThread
    /\ pc' = [pc EXCEPT ![t] = "rai_ret"]
    /\ UNCHANGED <<readers, hash, value, errno, htit_parent, htit_slot, destroyed>>

\* ---- ht_destroy ----
\* ht_destroy takes no lock: its caller sees to it that no call is in flight
\* while ((hi = TAILQ_NEXT(hi, hti_link)) != NULL) TAILQ_REMOVE(..., hi, ...):
\* hi is orig[i]; its link still names orig[i + 1] after it has been unlinked
RECURSIVE HtDestroyWalk(_, _, _)
HtDestroyWalk(orig, items, i) ==
    IF i >= Len(orig) THEN items
    ELSE HtDestroyWalk(orig, TAILQ_REMOVE(items, orig[i + 1]), i + 1)

HtDestroyChain(items) ==
    IF TAILQ_FIRST(items) = NULL THEN items
    ELSE HtDestroyWalk(items, items, 1)

\* the nodes ht_destroy passes to free()
HtDestroyFreed(chains) == {}

Destroy(t) ==
    /\ CanCall(t)
    /\ \A u \in Threads : pc[u] = "idle"
    /\ hte_items' = [s \in Slots |-> HtDestroyChain(hte_items[s])]
    /\ allocated' = allocated \ HtDestroyFreed(hte_items)
    /\ destroyed' = TRUE
    /\ UNCHANGED <<hti_hash, hti_data, lock, pc, frame, iter, ub>>

ThreadStep(t) ==
    \/ \E h \in Hashes : FindEnter(t, h)
    \/ FindBody(t)
    \/ \E h \in Hashes, v \in Values : AddEnter(t, h, v)
    \/ AddScan(t)
    \/ AddInsert(t)
    \/ \E h \in Hashes : RemoveEnter(t, h)
    \/ RemoveBody(t)
    \/ IterEnter(t)
    \/ IterBody(t)
    \/ NextEnter(t)
    \/ NextBody(t)
    \/ NextRead(t)
    \/ RemoveAtIterCall(t)
    \/ RemoveAtIterLock(t)
    \/ RemoveAtIterBody(t)
    \/ Destroy(t)
    \/ Return(t)

\* threads calling into the table in parallel
Next == \E t \in Threads : ThreadStep(t)

Spec == Init /\ [][Next]_vars

\* one thread calling into the table
NextSeq == \E t \in SeqThreads : ThreadStep(t)

SpecSeq == Init /\ [][NextSeq]_vars

\* every thread calls ht_add once, on an empty table
NextAdd ==
    \E t \in Threads :
        \/ \E h \in Hashes, v \in Values : AddEnter(t, h, v)
        \/ AddScan(t)
        \/ AddInsert(t)

SpecAdd == Init /\ [][NextAdd]_vars

\* the threads that own an iterator fill the table, walk it and remove at
\* the cursor; every other thread calls ht_remove
NextWalk ==
    \/ \E t \in Iterators :
          \/ \E h \in Hashes, v \in Values : AddEnter(t, h, v)
          \/ AddScan(t)
          \/ AddInsert(t)
          \/ IterEnter(t)
          \/ IterBody(t)
          \/ NextEnter(t)
          \/ NextBody(t)
          \/ NextRead(t)
          \/ RemoveAtIterCall(t)
          \/ RemoveAtIterLock(t)
          \/ RemoveAtIterBody(t)
          \/ Return(t)
    \/ \E t \in Threads \ Iterators :
          \/ \E h \in Hashes : RemoveEnter(t, h)
          \/ RemoveBody(t)
          \/ Return(t)

SpecWalk == Init /\ [][NextWalk]_vars

\* one caller fills the table, calls ht_iter once and from then on calls
\* ht_next only
DrainCall(t) ==
    \/ NextEnter(t)
    \/ NextBody(t)
    \/ NextRead(t)
    \/ Return(t)

NextDrain ==
    \E t \in SeqThreads :
        \/ phase[t] = "none" /\ \E h \in Hashes, v \in Values : AddEnter(t, h, v)
        \/ AddScan(t)
        \/ AddInsert(t)
        \/ phase[t] = "none" /\ IterEnter(t)
        \/ IterBody(t)
        \/ DrainCall(t)

\* the caller goes on calling ht_next, and every call in flight goes on:
\* pthread_rwlock_rdlock is granted, there being no writer
SpecDrain ==
    /\ Init
    /\ [][NextDrain]_vars
    /\ \A t \in SeqThreads : WF_vars(phase[t] # "none" /\ DrainCall(t))

\* ------------------------------------------------------------------
\* Properties
\* ------------------------------------------------------------------

\* ht_find(h) on the table as it stands
Find(h) == HtFind(hte_items, hti_hash, hti_data, h)

\* ht_find(h) on the table after the step
FindAfter(h) == HtFind(hte_items', hti_hash', hti_data', h)

\* how often v occurs in a sequence of values
Count(vals, v) == Cardinality({i \in 1..Len(vals) : vals[i] = v})

\* how many linked nodes carry value v
Stored(v) == Cardinality({n \in Linked(hte_items) : hti_data[n] = v})

\* how many linked nodes carry hash h
Entries(h) == Cardinality({n \in Linked(hte_items) : hti_hash[n] = h})

\* the thread's ht_next has just reported Exhausted
Exhausted(t) == pc[t] = "next_ret" /\ ret[t] = NULL /\ phase[t] = "done"

\* C1: Iteration completeness.  When ht_next reports Exhausted on an
\* iteration during which no chain changed, the values it returned since
\* ht_iter are exactly the values stored in the table, each as often as it
\* is stored.
C1_IterationComplete ==
    \A t \in Threads :
        (Exhausted(t) /\ clean[t] /\ ~ub) =>
            \A v \in Values : Count(yielded[t], v) = Stored(v)

\* C2: Iterator removal.  A ht_remove_at_iter that follows a ht_next which
\* returned the data of node e (hash h) succeeds and removes e and nothing
\* else: afterwards ht_find(h) is absent and every other hash finds what it
\* found before.
C2_RemovesReturnedEntry ==
    [][\A t \in Threads :
         (pc[t] = "rai_cs" /\ pc'[t] = "rai_ret" /\ phase[t] = "next"
            /\ returned[t] \in Linked(hte_items) /\ ~ub)
         => LET h == hti_hash[returned[t]]
            IN /\ ret'[t] = 0
               /\ FindAfter(h) = NULL
               /\ \A g \in Hashes \ {h} : FindAfter(g) = Find(g)]_vars

\* C3: InvalidState.  A ht_remove_at_iter on an iterator whose last call
\* was ht_iter (no ht_next yet) or a ht_next that reported Exhausted never
\* gets as far as taking the lock: it returns -1 with errno EINVAL.
C3_InvalidState ==
    \A t \in Threads :
        phase[t] \in {"fresh", "done"} =>
            /\ pc[t] \notin {"rai_lock", "rai_cs"}
            /\ pc[t] = "rai_ret" => (ret[t] = -1 /\ errno[t] = EINVAL)

\* C4: Destroy releases all nodes.  Once ht_destroy has returned, no
\* ht_item node is still allocated.
C4_DestroyFreesAll == destroyed => allocated = {}

\* C5: Uniqueness.  A ht_add of a hash that is present (added and not
\* removed since) fails with -1 and errno EEXIST, and ht_find of that hash
\* still returns the value stored before.
C5_Uniqueness ==
    [][\A t \in Threads :
         (pc[t] = "add_cs" /\ pc'[t] # "add_cs" /\ Find(hash[t]) # NULL)
         => /\ pc'[t] = "add_ret"
            /\ ret'[t] = -1
            /\ errno'[t] = EEXIST
            /\ FindAfter(hash[t]) = Find(hash[t])]_vars

\* a ht_add was refused as a duplicate, with a value other than the stored one
C5_Witness ==
    \E t \in Threads :
        /\ pc[t] = "add_ret" /\ ret[t] = -1 /\ errno[t] = EEXIST
        /\ Find(hash[t]) # NULL /\ Find(hash[t]) # value[t]

\* C6: Round trip.  A ht_add of a hash that is absent goes on to insert,
\* returns 0, and ht_find of that hash then returns the value added,
\* whatever else is in the same chain.
C6_RoundTrip ==
    [][\A t \in Threads :
         /\ (pc[t] = "add_cs" /\ pc'[t] # "add_cs" /\ Find(hash[t]) = NULL)
            => pc'[t] = "add_ins"
         /\ (pc[t] = "add_ins" /\ pc'[t] # "add_ins")
            => /\ pc'[t] = "add_ret"
               /\ ret'[t] = 0
               /\ FindAfter(hash[t]) = value[t]]_vars

\* a ht_add succeeded into a chain that already held another hash
C6_Witness ==
    \E t \in Threads :
        /\ pc[t] = "add_ret" /\ ret[t] = 0
        /\ Find(hash[t]) = value[t]
        /\ Len(hte_items[SlotOf(hash[t])]) >= 2

\* C7: Remove correctness.  A ht_remove of a present hash returns 0, after
\* which ht_find of it is absent and every other hash finds what it found
\* before; a ht_remove of an absent hash (so also a second ht_remove)
\* returns -1 with errno ENOENT.
C7_RemoveCorrect ==
    [][\A t \in Threads :
         (pc[t] = "remove_cs" /\ pc'[t] = "remove_ret")
         => IF Find(hash[t]) # NULL
            THEN /\ ret'[t] = 0
                 /\ FindAfter(hash[t]) = NULL
                 /\ \A g \in Hashes \ {hash[t]} : FindAfter(g) = Find(g)
            ELSE /\ ret'[t] = -1
                 /\ errno'[t] = ENOENT]_vars

\* a ht_remove succeeded and left another entry behind in the same chain
C7_Witness ==
    \E t \in Threads :
        /\ pc[t] = "remove_ret" /\ ret[t] = 0
        /\ Find(hash[t]) = NULL
        /\ hte_items[SlotOf(hash[t])] # <<>>

\* the threads whose ht_add of hash h has finished
Added(h) == {t \in Threads : pc[t] = "add_ret" /\ hash[t] = h}

\* C8: Atomic duplicate check.  Of the ht_add calls of one hash made in
\* parallel on a table without it, exactly one returns 0, every other one
\* returns -1 with errno EEXIST, and the table holds one entry of the hash.
C8_AtomicDuplicateCheck ==
    \A h \in Hashes :
        Added(h) # {} =>
            /\ Cardinality({t \in Added(h) : ret[t] = 0}) = 1
            /\ \A t \in Added(h) : ret[t] # 0 => (ret[t] = -1 /\ errno[t] = EEXIST)
            /\ Entries(h) = 1

\* two parallel ht_add calls of the same hash have both finished
C8_Witness ==
    \E t, u \in Threads :
        /\ t # u
        /\ pc[t] = "add_ret" /\ pc[u] = "add_ret"
        /\ hash[t] = hash[u]
        /\ ret[t] = 0 /\ ret[u] = -1

\* C9: Concurrent add.  A ht_add made in parallel with ht_add calls of
\* other hashes only returns 0, and ht_find of its hash returns the value
\* it added, also when the other hashes share its chain.
C9_ConcurrentAdd ==
    \A t \in Threads :
        (pc[t] = "add_ret" /\ \A u \in Threads \ {t} : pc[u] = "idle" \/ hash[u] # hash[t])
        => (ret[t] = 0 /\ Find(hash[t]) = value[t])

\* every thread's ht_add has finished, all of different hashes of one chain
C9_Witness ==
    /\ \A t \in Threads : pc[t] = "add_ret" /\ ret[t] = 0
    /\ \A t, u \in Threads : t # u => (hash[t] # hash[u] /\ SlotOf(hash[t]) = SlotOf(hash[u]))

\* positions inside a critical section taken in exclusive / shared mode
WriteCS == {"add_cs", "add_ins", "remove_cs", "rai_cs"}

ReadCS == {"find_cs", "iter_cs", "next_cs"}

\* positions whose next step reads or writes a chain or an ht_item
TouchesNodes == WriteCS \cup ReadCS \cup {"next_read"}

HoldsLock(t) == t \in readers \/ writer = t

\* C10: Reader/writer exclusion.  As long as no freed memory has been
\* touched: while a thread is inside the critical section of ht_add,
\* ht_remove or ht_remove_at_iter no other thread is inside any critical
\* section, and a thread about to read or write a chain or a node holds
\* the lock.
C10_Exclusion ==
    ~ub =>
        /\ \A t \in Threads :
             pc[t] \in WriteCS => \A u \in Threads \ {t} : pc[u] \notin WriteCS \cup ReadCS
        /\ \A t \in Threads : pc[t] \in TouchesNodes => HoldsLock(t)

\* C11: Weak-consistency iteration under concurrent removal.  When another
\* thread's ht_remove has freed the node an iterator's cursor references,
\* the iterator's ht_next does not follow that node's link: inside ht_next,
\* with buckets left to visit, the cursor is never the address of a freed
\* node (the iterator's own ht_remove_at_iter set aside).
C11_SkipsRemoved ==
    \A t \in Threads :
        (pc[t] = "next_cs" /\ phase[t] # "removed" /\ htit_slot[t] # NEntries /\ ~ub)
        => htit_cursor[t] # Dangling

\* C12: Forward iteration survives iterator removal.  When ht_next has
\* returned an entry and ht_remove_at_iter then removes at the cursor, the
\* iterator's cursor is not left holding the address of the node that was
\* freed, so that the ht_next calls that follow can go on from it.
C12_CursorSurvivesRemoval ==
    [][\A t \in Threads :
         (pc[t] = "rai_cs" /\ pc'[t] = "rai_ret" /\ phase[t] = "next" /\ ~ub)
         => htit_cursor'[t] # Dangling]_vars

\* the chains, the nodes' fields and every iterator are what they were
TableUnchanged ==
    /\ hte_items' = hte_items
    /\ hti_hash' = hti_hash
    /\ hti_data' = hti_data
    /\ allocated' = allocated
    /\ htit_slot' = htit_slot
    /\ htit_cursor' = htit_cursor

\* C13: No state change on error.  A ht_add that returns -1 (EEXIST), a
\* ht_remove that returns -1 (ENOENT) and a ht_remove_at_iter that returns
\* -1 (EINVAL) leave every chain, with its order, and the iterator's slot
\* and cursor as they were: neither the step that enters the call nor the
\* step that ends it in the error changes any of them.
C13_NoChangeOnError ==
    [][\A t \in Threads :
         /\ (pc[t] = "idle" /\ pc'[t] \in {"add_cs", "remove_cs", "rai_lock"})
            => TableUnchanged
         /\ (pc[t] # pc'[t] /\ pc'[t] \in {"add_ret", "remove_ret", "rai_ret"} /\ ret'[t] = -1)
            => /\ TableUnchanged
               /\ errno'[t] = (IF pc'[t] = "add_ret" THEN EEXIST
                               ELSE IF pc'[t] = "remove_ret" THEN ENOENT ELSE EINVAL)]_vars

\* a ht_add was refused as a duplicate while an iteration had its cursor on
\* a node
C13_Witness ==
    \E t \in Threads :
        /\ pc[t] = "add_ret" /\ ret[t] = -1 /\ errno[t] = EEXIST
        /\ htit_cursor[t] \in Node
        /\ Len(hte_items[SlotOf(hash[t])]) >= 2

\* every place of a chain: the pairs of a slot and an index into its chain
Places == {p \in Slots \X (1..(2 * MaxNodes)) : p[2] <= Len(hte_items[p[1]])}

\* C14: Table well-formedness.  In every state reached by ht_add,
\* ht_remove, ht_iter, ht_next and ht_remove_at_iter calls, interleaved in
\* any way, the linked nodes are the allocated ones, each is linked at one
\* place only, in the chain of its hash modulo the number of chains, and no
\* two linked nodes carry the same hash.
C14_WellFormed ==
    /\ Linked(hte_items) = allocated
    /\ \A p \in Places : SlotOf(hti_hash[hte_items[p[1]][p[2]]]) = p[1]
    /\ \A p, q \in Places :
         p # q => /\ hte_items[p[1]][p[2]] # hte_items[q[1]][q[2]]
                  /\ hti_hash[hte_items[p[1]][p[2]]] # hti_hash[hte_items[q[1]][q[2]]]

\* the non-empty chains behind the iterator's slot
ChainsAhead(t) == {s \in Slots : s > htit_slot[t] /\ hte_items[s] # <<>>}

\* C15: ht_next advances across buckets.  A ht_next that finds the cursor
\* empty while a chain of a higher index holds an entry does not report
\* Exhausted: it goes on to return the first entry of the nearest such
\* chain.
C15_AdvancesAcrossBuckets ==
    [][\A t \in Threads :
         (pc[t] = "next_cs" /\ pc'[t] # "next_cs" /\ htit_cursor[t] = NULL
            /\ htit_slot[t] \in Slots /\ ChainsAhead(t) # {})
         => LET s == CHOOSE c \in ChainsAhead(t) : \A d \in ChainsAhead(t) : c <= d
            IN /\ pc'[t] = "next_read"
               /\ item'[t] = TAILQ_FIRST(hte_items[s])]_vars

\* C16: ht_next returns the entry under the cursor.  A ht_next called with
\* the cursor on a live node e of the iterator's chain goes on to return
\* e's data, also when e is the last node of its chain, and where e has a
\* successor in the chain the cursor is left on it.
C16_ReturnsCursorEntry ==
    [][\A t \in Threads :
         (pc[t] = "next_cs" /\ pc'[t] # "next_cs" /\ CursorInSlot(t) /\ ~ub)
         => LET e == htit_cursor[t]
                succ == TAILQ_NEXT(hte_items[htit_slot[t]], e)
            IN /\ pc'[t] = "next_read"
               /\ item'[t] = e
               /\ succ # NULL => htit_cursor'[t] = succ]_vars

\* C17: Lock scoped to each operation.  The threads holding ht_rwlock are
\* the ones inside a critical section: a thread that is between two calls,
\* has returned from a call on any path, or is in the unlocked part of a
\* call holds nothing, and when no thread is inside a critical section (so
\* also between ht_iter and ht_next, and between two ht_next calls) the
\* lock is free for another thread's ht_add or ht_remove to take.
C17_LockScoped ==
    /\ readers = {t \in Threads : pc[t] \in ReadCS}
    /\ \A t \in Threads : writer = t <=> pc[t] \in WriteCS
    /\ \A t \in Threads : pc[t] \notin WriteCS \cup ReadCS => ~HoldsLock(t)
    /\ (\A t \in Threads : pc[t] \notin WriteCS \cup ReadCS) => (CanWrLock /\ CanRdLock)

\* a thread has taken the lock for ht_add while another thread is between
\* two ht_next calls of its iteration
C17_Witness ==
    \E t, u \in Threads :
        /\ t # u
        /\ pc[t] = "idle" /\ phase[t] = "next" /\ htit_cursor[t] \in Node
        /\ pc[u] = "add_ins"

C19_CursorInSlot ==
    \A t \in Threads : htit_cursor[t] # NULL => CursorInSlot(t)

\* ht_next has returned an entry and left the cursor on its successor
C19_Witness ==
    \E t \in Threads :
        /\ pc[t] = "next_ret" /\ phase[t] = "next"
        /\ htit_cursor[t] \in Node
        /\ htit_cursor[t] # returned[t]

\* C20: No double removal.  Whatever ht_remove calls other threads make
\* around it, a ht_remove_at_iter that holds the write lock is about to
\* unlink and free a node that is still linked in the iterator's chain:
\* never one that another thread's ht_remove has unlinked and freed since
\* the cursor was set or since the NULL check made before the lock (the
\* iterator's own earlier ht_remove_at_iter set aside).
C20_NoDoubleRemoval ==
    \A t \in Threads :
        (pc[t] = "rai_cs" /\ phase[t] # "removed" /\ ~ub) => CursorInSlot(t)

====
